---- MODULE Spec2Model ----
(***************************************************************************)
(* Model of src/app1.py: a Streamlit dashboard that fetches World Bank     *)
(* indicators through a cached fetch layer and aggregates them per group   *)
(* of countries in the Comparison, Trends, Military, Trade, Live and Map   *)
(* sections.                                                               *)
(*                                                                         *)
(* Numbers: the API's values are modelled as naturals; a Python true       *)
(* division n/d is kept exact as the pair <<n, d>> (d # 0), and a division *)
(* by zero is the ZeroDivisionError Python raises for int and float alike. *)
(***************************************************************************)
EXTENDS Integers, Sequences, FiniteSets, TLC

\* ------------------------------------------------------------------ bounds
\* Years of an indicator's rows are 1..NumYears.
NumYears == 2
\* Observation values are 0..MaxVal.
MaxVal == 1
\* The rows (observations, null-valued ones included) the API serves to one
\* script run, over all the requests of the run, are at most MaxObs.
MaxObs == 2
\* Seconds since the session's start_time, as a Live run reads them.
MaxElapsed == 1
\* The clock time.time() reads runs over 0..MaxNow in a session.
MaxNow == 2

Years == 1..NumYears
Values == 0..MaxVal

\* ------------------------------------------------------------- Python data
\* Python's None where a number is expected (values are never negative).
None == -1

\* Python truthiness of an optional number: None and 0 are falsy.
Truthy(v) == v # None /\ v # 0

\* A dict is kept as the sequence of its <<key, value>> items in insertion
\* order, which is the order Python iterates it in.
DictHas(d, k) == \E i \in 1..Len(d) : d[i][1] = k

DictGet(d, k, default) ==
    IF DictHas(d, k)
    THEN d[CHOOSE i \in 1..Len(d) : d[i][1] = k][2]
    ELSE default

\* d[k] = v: an existing key keeps its position, a new key is appended.
DictSet(d, k, v) ==
    IF DictHas(d, k)
    THEN [i \in 1..Len(d) |-> IF d[i][1] = k THEN <<k, v>> ELSE d[i]]
    ELSE Append(d, <<k, v>>)

DictKeys(d) == [i \in 1..Len(d) |-> d[i][1]]
DictValues(d) == [i \in 1..Len(d) |-> d[i][2]]

RECURSIVE SumSeq(_)
SumSeq(s) == IF s = <<>> THEN 0 ELSE s[1] + SumSeq(Tail(s))

\* Order of Python tuples (year, value).
TupleLess(a, b) == a[1] < b[1] \/ (a[1] = b[1] /\ a[2] < b[2])

RECURSIVE Insert(_, _)
Insert(s, x) ==
    IF s = <<>> THEN <<x>>
    ELSE IF TupleLess(x, s[1]) THEN <<x>> \o s
    ELSE <<s[1]>> \o Insert(Tail(s), x)

RECURSIVE sorted(_)
sorted(s) == IF s = <<>> THEN <<>> ELSE Insert(sorted(Tail(s)), s[1])

\* ------------------------------------------------------------- fetch layer
\* An HTTP outcome: status "ok" with a decoded JSON body, or a failure.
\* A body is the JSON list the API answers with: <<meta, rows>>, where rows
\* is null or a list of [date, value] rows, or the one-element error list
\* the API answers an unknown country code with.
JsRows(rows) == << [page |-> 1], [null |-> FALSE, list |-> rows] >>
JsNullRows == << [page |-> 1], [null |-> TRUE, list |-> <<>>] >>
JsError == << [message |-> "Invalid value"] >>

Ok(body) == [status |-> "ok", body |-> body]
Failed(why) == [status |-> why, body |-> <<>>]

\* safe_json's outcome: the decoded body or None returned, or an exception
\* that leaves the function (raised # "").
JsonNone == [none |-> TRUE, js |-> <<>>, raised |-> ""]
Json(body) == [none |-> FALSE, js |-> body, raised |-> ""]
Raises(e) == [none |-> FALSE, js |-> <<>>, raised |-> e]

\* Mutant: only requests' own exceptions are caught; the ValueError of an
\* undecodable body leaves the function.
safe_json_requests_only(resp) ==
    IF resp.status = "ok" THEN Json(resp.body)
    ELSE IF resp.status = "JSONDecodeError" THEN Raises("JSONDecodeError")
    ELSE JsonNone

\* requests.get, raise_for_status and r.json() run inside try; every
\* Exception is caught and None returned.
safe_json(resp) ==
    IF resp.status = "ok" THEN Json(resp.body) ELSE JsonNone

\* not js or len(js) < 2 or js[1] is None
NoData(r) == r.none \/ Len(r.js) = 0 \/ Len(r.js) < 2 \/ r.js[2].null

RECURSIVE SeriesRows(_)
SeriesRows(rows) ==
    IF rows = <<>> THEN <<>>
    ELSE (IF rows[1].value # None
          THEN << <<rows[1].date, rows[1].value>> >> ELSE <<>>)
         \o SeriesRows(Tail(rows))

get_series_of(resp) ==
    LET r == safe_json(resp)
    IN IF NoData(r) THEN <<>> ELSE sorted(SeriesRows(r.js[2].list))

RECURSIVE FirstValue(_)
FirstValue(rows) ==
    IF rows = <<>> THEN None
    ELSE IF rows[1].value # None THEN rows[1].value
    ELSE FirstValue(Tail(rows))

get_indicator_of(resp) ==
    LET r == safe_json(resp)
    IN IF NoData(r) THEN None ELSE FirstValue(r.js[2].list)

\* {c["name"]: c["id"] for c in js[1] if c["region"]["id"] != "NA"}
RECURSIVE CountryItems(_, _)
CountryItems(rows, d) ==
    IF rows = <<>> THEN d
    ELSE CountryItems(Tail(rows),
                      IF rows[1].region # "NA"
                      THEN DictSet(d, rows[1].name, rows[1].id) ELSE d)

\* get_countries tests only "not js or len(js) < 2".
get_countries_of(resp) ==
    LET r == safe_json(resp)
    IN IF r.none \/ Len(r.js) < 2 THEN <<>>
       ELSE CountryItems(r.js[2].list, <<>>)

\* The exception that leaves a fetch function, "" when it returns: one
\* safe_json lets through, or the TypeError of iterating js[1] = None in
\* get_countries.
ExcOf(fn, resp) ==
    LET r == safe_json(resp)
    IN IF r.raised # "" THEN r.raised
       ELSE IF fn = "get_countries" /\ ~r.none /\ Len(r.js) >= 2 /\ r.js[2].null
       THEN "TypeError"
       ELSE ""

\* The calls of one script run: w maps each requested <<code, indicator>>
\* to the HTTP outcome of its request.
get_series(w, code, indicator) == get_series_of(w[<<code, indicator>>])
get_indicator(w, code, indicator) == get_indicator_of(w[<<code, indicator>>])

\* ------------------------------------------------------------ static data
\* The country list of the API at model size.  "Russia" (a member of the
\* BRICS and Caucasus presets) is no World Bank name, the bank lists
\* "Russian Federation"; so are "South Korea", "Syria", ...  "World" is an
\* aggregate (region id "NA").
CountryRows ==
    << [name |-> "Brazil", id |-> "BRA", region |-> "LCN"],
       [name |-> "India", id |-> "IND", region |-> "SAS"],
       [name |-> "World", id |-> "WLD", region |-> "NA"],
       [name |-> "Georgia", id |-> "GEO", region |-> "ECS"] >>

\* countries = get_countries(), the API reachable: name -> code.
countries == get_countries_of(Ok(JsRows(CountryRows)))

\* REGIONS at model size: each preset's list cut down to the names
\* Brazil, Russia, India, Georgia, in the list's order.
REGIONS ==
    [r \in {"BRICS", "The Caucasus"} |->
        IF r = "BRICS" THEN <<"Brazil", "Russia", "India">>
        ELSE <<"Russia", "Georgia">>]

\* countries.get(c): None for a name that is no key.  None is kept as the
\* string the f-string of the request URL renders it to.
NoCode == "None"

\* Mutant: a lookup that falls back to the first country's code.
CountriesGetDefault(c) == DictGet(countries, c, countries[1][2])

CountriesGet(c) == DictGet(countries, c, NoCode)

INDICATORS ==
    [metric_label \in {"Population", "GDP", "GDP per Capita", "Gini Index",
                       "Imports (USD)", "Exports (USD)", "Military Spending (USD)",
                       "Military Spending (% GDP)", "Armed Forces Personnel"} |->
        CASE metric_label = "Population" -> "SP.POP.TOTL"
          [] metric_label = "GDP" -> "NY.GDP.MKTP.CD"
          [] metric_label = "GDP per Capita" -> "NY.GDP.PCAP.CD"
          [] metric_label = "Gini Index" -> "SI.POV.GINI"
          [] metric_label = "Imports (USD)" -> "NE.IMP.GNFS.CD"
          [] metric_label = "Exports (USD)" -> "NE.EXP.GNFS.CD"
          [] metric_label = "Military Spending (USD)" -> "MS.MIL.XPND.CD"
          [] metric_label = "Military Spending (% GDP)" -> "MS.MIL.XPND.GD.ZS"
          [] metric_label = "Armed Forces Personnel" -> "MS.MIL.TOTL.P1"]

POP == "SP.POP.TOTL"
GDP == "NY.GDP.MKTP.CD"
IMP == "NE.IMP.GNFS.CD"
EXP == "NE.EXP.GNFS.CD"

\* groups for one selected item: a country stands for itself, a preset for
\* its member list.  (The loop over groups treats each item on its own.)
GroupsOf(selection_type) ==
    IF selection_type = "Countries"
    THEN {<<countries[i][1]>> : i \in 1..Len(countries)}
    ELSE {REGIONS[r] : r \in DOMAIN REGIONS}

Range(s) == {s[i] : i \in 1..Len(s)}

\* ------------------------------------------------- what the API can serve
\* The rows of one request, most recent year first (the API's order): the
\* years for which obs holds a row for the key.
RECURSIVE RowsFrom(_, _, _)
RowsFrom(obs, key, y) ==
    IF y = 0 THEN <<>>
    ELSE (IF <<key, y>> \in DOMAIN obs
          THEN << [date |-> y, value |-> obs[<<key, y>>]] >> ELSE <<>>)
         \o RowsFrom(obs, key, y - 1)

\* A request for an unknown country code is answered with the error list.
Serve(obs, key) ==
    IF key[1] = NoCode THEN Ok(JsError) ELSE Ok(JsRows(RowsFrom(obs, key, NumYears)))

\* Every table of at most n rows over the cells of the keys.
TablesUpTo(keys, n) ==
    LET cells == {k \in keys : k[1] # NoCode} \X Years
    IN UNION {[c -> Values \cup {None}] :
                 c \in {c \in SUBSET cells : Cardinality(c) <= n}}

Tables(keys) == TablesUpTo(keys, MaxObs)

\* ---------------------------------------------------------------- state
VARIABLES
    phase,      \* "ready": selection made, script not yet run; "shown": rendered
    tab,        \* the section of the script the run is followed through
    label,      \* the selectbox / radio choice of that section ("" when none)
    members,    \* the member list of the selected group
    wb,         \* the HTTP outcomes of the section's requests
    elapsed,    \* Live: time.time() - start_time
    agg,        \* the group's bar value <<n, d>> for n/d, <<>> for None
    traced,     \* Trends: fig.add_trace was called for the group
    xvals,      \* Trends: x of the trace
    yvals,      \* Trends: y of the trace, each value a pair <<n, d>>
    zvals,      \* Map: z of the choropleth
    highlight,  \* Map: the codes outlined for the selected groups
    exc,        \* the exception that ended the run, "" when none
    net,        \* what a request meets now: "ok" or the exception it ends in
    source,     \* the bodies the API answers with when it is reached
    cache,      \* st.cache_data: call key -> <<result>>, <<>> when not held
    last,       \* the last call of a fetch function and its outcome
    mode,       \* the sidebar's Mode radio as the last run read it
    start_time, \* st.session_state.start_time, None while the key is not set
    now         \* what time.time() returns

runvars == <<phase, tab, label, members, wb, elapsed, agg, traced, xvals, yvals,
             zvals, highlight, exc>>
fetchvars == <<net, source, cache, last>>
sessionvars == <<mode, start_time, now>>
vars == <<runvars, fetchvars, sessionvars>>

\* A number n as the pair n/1.
Num(n) == <<n, 1>>
NoAgg == <<>>

\* -------------------------------------------------------------- Live mode
GLOBAL_BIRTHS == 140000000
GLOBAL_DEATHS == 60000000
SECONDS_PER_YEAR == 365 * 24 * 3600

\* The member loop: the sum of the populations that enter
\* total_growth_per_year (each as (BIRTHS - DEATHS) * pop / world_pop).
RECURSIVE LiveLoop(_, _, _)
LiveLoop(w, ms, world_pop) ==
    IF ms = <<>> THEN 0
    ELSE LET pop == get_indicator(w, CountriesGet(ms[1]), POP)
         IN (IF Truthy(pop) /\ Truthy(world_pop) THEN pop ELSE 0)
            + LiveLoop(w, Tail(ms), world_pop)

\* total_growth_per_year / SECONDS_PER_YEAR * elapsed, as one fraction.
live_mode(w, ms, el) ==
    LET world_pop == get_indicator(w, "WLD", POP)
        pops == LiveLoop(w, ms, world_pop)
    IN IF pops = 0 THEN Num(0)
       ELSE <<(GLOBAL_BIRTHS - GLOBAL_DEATHS) * pops * el,
              world_pop * SECONDS_PER_YEAR>>

LiveKeys(ms) ==
    {<<"WLD", POP>>} \cup ({CountriesGet(c) : c \in Range(ms)} \X {POP})

\* ------------------------------------------------------------- Comparison
RECURSIVE SumZip(_, _)
SumZip(a, b) ==
    IF a = <<>> \/ b = <<>> THEN 0
    ELSE a[1] * b[1] + SumZip(Tail(a), Tail(b))

\* Mutant: a member without a value enters vals as 0.
RECURSIVE CompareLoopZeroFill(_, _, _, _)
CompareLoopZeroFill(w, ms, metric, acc) ==
    IF ms = <<>> THEN acc
    ELSE LET code == CountriesGet(ms[1])
             v == get_indicator(w, code, metric)
             p == get_indicator(w, code, POP)
             vals == Append(acc[2], IF v # None THEN v ELSE 0)
             pops == IF Truthy(p) THEN Append(acc[1], p) ELSE acc[1]
         IN CompareLoopZeroFill(w, Tail(ms), metric, <<pops, vals>>)

\* The member loop of tab_compare: <<pops, vals>>.
RECURSIVE CompareLoop(_, _, _, _)
CompareLoop(w, ms, metric, acc) ==
    IF ms = <<>> THEN acc
    ELSE LET code == CountriesGet(ms[1])
             v == get_indicator(w, code, metric)
             p == get_indicator(w, code, POP)
             vals == IF v # None THEN Append(acc[2], v) ELSE acc[2]
             pops == IF Truthy(p) THEN Append(acc[1], p) ELSE acc[1]
         IN CompareLoop(w, Tail(ms), metric, <<pops, vals>>)

\* The bar of one group: [agg, exc].
tab_compare(w, ms, metric_label) ==
    LET acc == CompareLoop(w, ms, INDICATORS[metric_label], << <<>>, <<>> >>)
        pops == acc[1]
        vals == acc[2]
    IN IF vals = <<>> THEN [agg |-> NoAgg, exc |-> ""]
       ELSE IF metric_label \in {"Population", "GDP"}
       THEN [agg |-> Num(SumSeq(vals)), exc |-> ""]
       ELSE IF metric_label = "GDP per Capita"
       THEN IF SumSeq(pops) = 0
            THEN [agg |-> NoAgg, exc |-> "ZeroDivisionError"]
            ELSE [agg |-> <<SumZip(vals, pops), SumSeq(pops)>>, exc |-> ""]
       ELSE [agg |-> <<SumSeq(vals), Len(vals)>>, exc |-> ""]

CompareKeys(ms, metric_label) ==
    {CountriesGet(c) : c \in Range(ms)} \X {INDICATORS[metric_label], POP}

\* ---------------------------------------------------------------- Trends
\* Mutant: yearly[y] = v, the earlier members' values overwritten.
RECURSIVE AddSeriesOverwrite(_, _)
AddSeriesOverwrite(d, s) ==
    IF s = <<>> THEN d
    ELSE AddSeriesOverwrite(DictSet(d, s[1][1], s[1][2]), Tail(s))

RECURSIVE AddSeries(_, _)
AddSeries(d, s) ==
    IF s = <<>> THEN d
    ELSE AddSeries(DictSet(d, s[1][1], DictGet(d, s[1][1], 0) + s[1][2]), Tail(s))

\* Mutant: the loop leaves after its first member.
TrendsLoopFirstOnly(w, ms, metric, acc) ==
    IF ms = <<>> THEN acc
    ELSE LET code == CountriesGet(ms[1])
         IN <<AddSeries(acc[1], get_series(w, code, metric)),
              AddSeries(acc[2], get_series(w, code, POP))>>

\* The member loop of tab_trends: <<yearly, yearly_pop>>.
RECURSIVE TrendsLoop(_, _, _, _)
TrendsLoop(w, ms, metric, acc) ==
    IF ms = <<>> THEN acc
    ELSE LET code == CountriesGet(ms[1])
             y1 == AddSeries(acc[1], get_series(w, code, metric))
             y2 == AddSeries(acc[2], get_series(w, code, POP))
         IN TrendsLoop(w, Tail(ms), metric, <<y1, y2>>)

\* [y for y in d if y in other]
RECURSIVE SelectKeys(_, _)
SelectKeys(d, other) ==
    IF d = <<>> THEN <<>>
    ELSE (IF DictHas(other, d[1][1]) THEN <<d[1][1]>> ELSE <<>>)
         \o SelectKeys(Tail(d), other)

\* The trace of one group: [traced, xvals, yvals, exc].
tab_trends(w, ms, trend_label) ==
    LET acc == TrendsLoop(w, ms, INDICATORS[trend_label], << <<>>, <<>> >>)
        yearly == acc[1]
        yearly_pop == acc[2]
        xs == SelectKeys(yearly, yearly_pop)
    IN IF yearly = <<>>
       THEN [traced |-> FALSE, xvals |-> <<>>, yvals |-> <<>>, exc |-> ""]
       ELSE IF trend_label = "GDP per Capita"
       THEN IF \E i \in 1..Len(xs) : DictGet(yearly_pop, xs[i], 0) = 0
            THEN [traced |-> FALSE, xvals |-> <<>>, yvals |-> <<>>,
                  exc |-> "ZeroDivisionError"]
            ELSE [traced |-> TRUE, xvals |-> xs,
                  yvals |-> [i \in 1..Len(xs) |->
                               <<DictGet(yearly, xs[i], 0),
                                 DictGet(yearly_pop, xs[i], 0)>>],
                  exc |-> ""]
       ELSE [traced |-> TRUE, xvals |-> DictKeys(yearly),
             yvals |-> [i \in 1..Len(yearly) |-> Num(DictValues(yearly)[i])],
             exc |-> ""]

TrendsKeys(ms, trend_label) ==
    {CountriesGet(c) : c \in Range(ms)} \X {INDICATORS[trend_label], POP}

\* -------------------------------------------------------------- Military
MilitaryLabels ==
    {"Military Spending (USD)", "Military Spending (% GDP)", "Armed Forces Personnel"}

\* The member loop of the military section: <<vals, gdp_vals>>.
RECURSIVE MilitaryLoop(_, _, _, _)
MilitaryLoop(w, ms, metric, acc) ==
    IF ms = <<>> THEN acc
    ELSE LET code == CountriesGet(ms[1])
         IN IF code = NoCode THEN MilitaryLoop(w, Tail(ms), metric, acc)
            ELSE LET v == get_indicator(w, code, metric)
                     gdp == get_indicator(w, code, GDP)
                     vals == IF v # None THEN Append(acc[1], v) ELSE acc[1]
                     gdp_vals == IF v # None /\ Truthy(gdp)
                                 THEN Append(acc[2], gdp) ELSE acc[2]
                 IN MilitaryLoop(w, Tail(ms), metric, <<vals, gdp_vals>>)

\* "USD" in metric_label or "Personnel" in metric_label
IsTotal(metric_label) ==
    metric_label \in {"Military Spending (USD)", "Armed Forces Personnel"}

tab_military(w, ms, metric_label) ==
    LET acc == MilitaryLoop(w, ms, INDICATORS[metric_label], << <<>>, <<>> >>)
        vals == acc[1]
        gdp_vals == acc[2]
    IN IF vals = <<>> THEN [agg |-> NoAgg, exc |-> ""]
       ELSE IF IsTotal(metric_label) THEN [agg |-> Num(SumSeq(vals)), exc |-> ""]
       ELSE IF gdp_vals = <<>> THEN [agg |-> NoAgg, exc |-> ""]
       ELSE [agg |-> <<SumZip(vals, gdp_vals), SumSeq(gdp_vals)>>, exc |-> ""]

MilitaryKeys(ms, metric_label) ==
    ({CountriesGet(c) : c \in Range(ms)} \ {NoCode}) \X {INDICATORS[metric_label], GDP}

\* ----------------------------------------------------------------- Trade
TradeViews == {"Imports", "Exports", "Trade Balance"}

\* The member loop of the trade section: <<imports, exports>>.
RECURSIVE TradeLoop(_, _, _)
TradeLoop(w, ms, acc) ==
    IF ms = <<>> THEN acc
    ELSE LET code == CountriesGet(ms[1])
         IN IF code = NoCode THEN TradeLoop(w, Tail(ms), acc)
            ELSE LET imp == get_indicator(w, code, IMP)
                     exp == get_indicator(w, code, EXP)
                     imports == IF Truthy(imp) THEN Append(acc[1], imp) ELSE acc[1]
                     exports == IF Truthy(exp) THEN Append(acc[2], exp) ELSE acc[2]
                 IN TradeLoop(w, Tail(ms), <<imports, exports>>)

tab_trade(w, ms, trade_view) ==
    LET acc == TradeLoop(w, ms, << <<>>, <<>> >>)
        imports == acc[1]
        exports == acc[2]
    IN IF trade_view = "Imports"
       THEN [agg |-> IF imports # <<>> THEN Num(SumSeq(imports)) ELSE NoAgg, exc |-> ""]
       ELSE IF trade_view = "Exports"
       THEN [agg |-> IF exports # <<>> THEN Num(SumSeq(exports)) ELSE NoAgg, exc |-> ""]
       ELSE [agg |-> IF imports # <<>> \/ exports # <<>>
                     THEN Num(SumSeq(exports) - SumSeq(imports)) ELSE NoAgg,
             exc |-> ""]

TradeKeys(ms) == ({CountriesGet(c) : c \in Range(ms)} \ {NoCode}) \X {IMP, EXP}

\* ------------------------------------------------------------------- Map
\* float("nan")
NaN == -2

\* z: v if v else nan, for every country of get_countries in dict order.
tab_map_z(w) ==
    [i \in 1..Len(countries) |->
        LET v == get_indicator(w, countries[i][2], POP)
        IN IF Truthy(v) THEN v ELSE NaN]

\* {countries[c] for g in groups.values() for c in g if c in countries}
tab_map_highlight(ms) ==
    {CountriesGet(c) : c \in {c \in Range(ms) : DictHas(countries, c)}}

MapKeys == {countries[i][2] : i \in 1..Len(countries)} \X {POP}

\* ------------------------------------------------- cached fetch functions
\* The exceptions requests.get (ConnectionError, Timeout), raise_for_status
\* (HTTPError) and r.json() (JSONDecodeError) end in.
Failures == {"ConnectionError", "Timeout", "HTTPError", "JSONDecodeError"}

\* The calls followed through the cache: function name and arguments.
FetchKeys ==
    {<<"get_countries">>, <<"get_indicator", "BRA", POP>>, <<"get_series", "BRA", POP>>}

\* The bodies the API may hold for the indicator and for the country list.
IndicatorBodies ==
    {JsError, JsNullRows}
    \cup {JsRows(RowsFrom(obs, <<"BRA", POP>>, NumYears)) : obs \in Tables({<<"BRA", POP>>})}

CountryBodies == {JsError, JsNullRows, JsRows(CountryRows)}

SourceBody(k) == IF k[1] = "get_countries" THEN source.countries ELSE source.indicator

\* requests.get(url, timeout=10) ... r.json() as the network stands.
Request(k) == IF net = "ok" THEN Ok(SourceBody(k)) ELSE Failed(net)

\* The value the function body returns for the HTTP outcome.
ReturnOf(fn, resp) ==
    CASE fn = "get_countries" -> get_countries_of(resp)
      [] fn = "get_indicator" -> get_indicator_of(resp)
      [] fn = "get_series" -> get_series_of(resp)

NoCall == [key |-> <<>>, hit |-> FALSE, resp |-> Failed(""), ret |-> <<>>, exc |-> ""]

\* A call of a function under @st.cache_data (no ttl, no max_entries): a
\* result held for the arguments is returned without running the body;
\* otherwise the body runs, and its result is stored unless it raised.
Call(k) ==
    /\ IF cache[k] # <<>>
       THEN /\ last' = [key |-> k, hit |-> TRUE, resp |-> Failed(""),
                        ret |-> cache[k], exc |-> ""]
            /\ UNCHANGED cache
       ELSE \E resp \in {Request(k)} :
            \E e \in {ExcOf(k[1], resp)} :
               IF e # ""
               THEN /\ last' = [key |-> k, hit |-> FALSE, resp |-> resp,
                                ret |-> <<>>, exc |-> e]
                    /\ UNCHANGED cache
               ELSE /\ last' = [key |-> k, hit |-> FALSE, resp |-> resp,
                                ret |-> <<ReturnOf(k[1], resp)>>, exc |-> ""]
                    /\ cache' = [cache EXCEPT ![k] = <<ReturnOf(k[1], resp)>>]
    /\ UNCHANGED <<net, source>>
    /\ UNCHANGED runvars
    /\ UNCHANGED sessionvars

CallGetCountries == Call(<<"get_countries">>)
CallGetIndicator == Call(<<"get_indicator", "BRA", POP>>)
CallGetSeries == Call(<<"get_series", "BRA", POP>>)

\* The environment: the API becomes unreachable or answers badly, and
\* becomes reachable again.
NetFails ==
    /\ \E f \in Failures : f # net /\ net' = f
    /\ UNCHANGED <<source, cache, last>>
    /\ UNCHANGED runvars
    /\ UNCHANGED sessionvars

NetRecovers ==
    /\ net # "ok"
    /\ net' = "ok"
    /\ UNCHANGED <<source, cache, last>>
    /\ UNCHANGED runvars
    /\ UNCHANGED sessionvars

\* ------------------------------------------------------------ script runs
\* The section's requests answered from a table of the API's rows.
Answers(keys, obs) == [k \in keys |-> Serve(obs, k)]

RunLive ==
    /\ phase = "ready" /\ tab = "Live"
    /\ \E obs \in Tables(LiveKeys(members)), el \in 0..MaxElapsed :
       \E w \in {Answers(LiveKeys(members), obs)} :
          /\ wb' = w
          /\ elapsed' = el
          /\ agg' = live_mode(w, members, el)
          /\ exc' = ""
    /\ phase' = "shown"
    /\ UNCHANGED <<tab, label, members, traced, xvals, yvals, zvals, highlight>>
    /\ UNCHANGED fetchvars
    /\ UNCHANGED sessionvars

RunCompare ==
    /\ phase = "ready" /\ tab = "Comparison"
    /\ \E obs \in Tables(CompareKeys(members, label)) :
       \E w \in {Answers(CompareKeys(members, label), obs)} :
       \E r \in {tab_compare(w, members, label)} :
          /\ wb' = w
          /\ agg' = r.agg
          /\ exc' = r.exc
    /\ phase' = "shown"
    /\ UNCHANGED <<tab, label, members, elapsed, traced, xvals, yvals, zvals, highlight>>
    /\ UNCHANGED fetchvars
    /\ UNCHANGED sessionvars

RunTrends ==
    /\ phase = "ready" /\ tab = "Trends"
    /\ \E obs \in Tables(TrendsKeys(members, label)) :
       \E w \in {Answers(TrendsKeys(members, label), obs)} :
       \E r \in {tab_trends(w, members, label)} :
          /\ wb' = w
          /\ traced' = r.traced
          /\ xvals' = r.xvals
          /\ yvals' = r.yvals
          /\ exc' = r.exc
    /\ phase' = "shown"
    /\ UNCHANGED <<tab, label, members, elapsed, agg, zvals, highlight>>
    /\ UNCHANGED fetchvars
    /\ UNCHANGED sessionvars

\* (One row more than the other sections: a member with a value and no GDP
\* beside a member with both takes three rows.)
RunMilitary ==
    /\ phase = "ready" /\ tab = "Military"
    /\ \E obs \in TablesUpTo(MilitaryKeys(members, label), MaxObs + 1) :
       \E w \in {Answers(MilitaryKeys(members, label), obs)} :
       \E r \in {tab_military(w, members, label)} :
          /\ wb' = w
          /\ agg' = r.agg
          /\ exc' = r.exc
    /\ phase' = "shown"
    /\ UNCHANGED <<tab, label, members, elapsed, traced, xvals, yvals, zvals, highlight>>
    /\ UNCHANGED fetchvars
    /\ UNCHANGED sessionvars

RunTrade ==
    /\ phase = "ready" /\ tab = "Trade"
    /\ \E obs \in Tables(TradeKeys(members)) :
       \E w \in {Answers(TradeKeys(members), obs)} :
       \E r \in {tab_trade(w, members, label)} :
          /\ wb' = w
          /\ agg' = r.agg
          /\ exc' = r.exc
    /\ phase' = "shown"
    /\ UNCHANGED <<tab, label, members, elapsed, traced, xvals, yvals, zvals, highlight>>
    /\ UNCHANGED fetchvars
    /\ UNCHANGED sessionvars

RunMap ==
    /\ phase = "ready" /\ tab = "Map"
    /\ \E obs \in Tables(MapKeys) :
       \E w \in {Answers(MapKeys, obs)} :
          /\ wb' = w
          /\ zvals' = tab_map_z(w)
          /\ highlight' = tab_map_highlight(members)
          /\ exc' = ""
    /\ phase' = "shown"
    /\ UNCHANGED <<tab, label, members, elapsed, agg, traced, xvals, yvals>>
    /\ UNCHANGED fetchvars
    /\ UNCHANGED sessionvars

\* The sidebar selection of a run: the mode and section, the section's
\* choice, and one selected country or preset.
LabelsOf(t) ==
    CASE t \in {"Comparison", "Trends"} -> DOMAIN INDICATORS
      [] t = "Military" -> MilitaryLabels
      [] t = "Trade" -> TradeViews
      [] OTHER -> {""}

Init ==
    /\ phase = "ready"
    /\ tab \in {"Live", "Comparison", "Trends", "Military", "Trade", "Map"}
    /\ label \in LabelsOf(tab)
    /\ \E selection_type \in {"Countries", "Regions / Blocs"} :
          members \in GroupsOf(selection_type)
    /\ wb = <<>>
    /\ elapsed = 0
    /\ agg = NoAgg
    /\ traced = FALSE
    /\ xvals = <<>>
    /\ yvals = <<>>
    /\ zvals = <<>>
    /\ highlight = {}
    /\ exc = ""
    /\ net = "ok"
    /\ source = [countries |-> JsRows(CountryRows), indicator |-> JsRows(<<>>)]
    /\ cache = [k \in FetchKeys |-> <<>>]
    /\ last = NoCall
    /\ mode = (IF tab = "Live" THEN "Live" ELSE "Static")
    /\ start_time = None
    /\ now = 0

Next == RunLive \/ RunCompare \/ RunTrends \/ RunMilitary \/ RunTrade \/ RunMap

\* One script run over the sidebar selection and the API's answers.
Spec == Init /\ [][Next]_vars

\* The fetch layer alone: a server process whose cache starts empty, over
\* any bodies the API holds and any network condition.
FetchInit ==
    /\ phase = "ready"
    /\ tab = ""
    /\ label = ""
    /\ members = <<>>
    /\ wb = <<>>
    /\ elapsed = 0
    /\ agg = NoAgg
    /\ traced = FALSE
    /\ xvals = <<>>
    /\ yvals = <<>>
    /\ zvals = <<>>
    /\ highlight = {}
    /\ exc = ""
    /\ net \in {"ok"} \cup Failures
    /\ source \in [countries : CountryBodies, indicator : IndicatorBodies]
    /\ cache = [k \in FetchKeys |-> <<>>]
    /\ last = NoCall
    /\ mode = "Live"
    /\ start_time = None
    /\ now = 0

FetchNext ==
    CallGetCountries \/ CallGetIndicator \/ CallGetSeries \/ NetFails \/ NetRecovers

FetchSpec == FetchInit /\ [][FetchNext]_vars

\* Every script run calls get_countries, and the Live mode's auto-refresh
\* reruns the script every 5 s, so the fetch functions keep being called.
FetchLive ==
    /\ FetchInit
    /\ [][FetchNext]_vars
    /\ WF_vars(CallGetCountries)
    /\ WF_vars(CallGetIndicator)
    /\ WF_vars(CallGetSeries)

\* ---------------------------------------------------------------- session
\* One browser session: the script is rerun by the auto-refresh and by every
\* change of a sidebar widget, st.session_state lives across the reruns, and
\* the cached get_indicator results stay what the first call stored.

\* The groups the selection moves between: the default country and a preset.
SessionGroups == {<<"Brazil">>, REGIONS["BRICS"]}

SessionKeys == UNION {LiveKeys(g) : g \in SessionGroups}

\* Mutant: start_time is assigned on every Live run.
SetStartTimeAlways(st, t) == t

\* if "start_time" not in st.session_state: st.session_state.start_time = t
SetStartTime(st, t) == IF st = None THEN t ELSE st

\* A run with the Mode radio on "Live".  time.time() is read for start_time
\* and again for elapsed; the clock may have moved between the two reads.
RerunLive ==
    /\ \E ms \in SessionGroups, t \in {now, now + 1} :
          /\ t <= MaxNow
          /\ phase = "ready" => ms = <<"Brazil">>
          /\ members' = ms
          /\ start_time' = SetStartTime(start_time, now)
          /\ now' = t
          /\ elapsed' = t - start_time'
          /\ agg' = live_mode(wb, ms, elapsed')
    /\ mode' = "Live"
    /\ tab' = "Live"
    /\ phase' = "shown"
    /\ exc' = ""
    /\ UNCHANGED <<label, wb, traced, xvals, yvals, zvals, highlight>>
    /\ UNCHANGED fetchvars

\* A run with the Mode radio on "Static": the Live block is skipped, so
\* neither session_state nor the live chart is written.  The radio is on
\* "Live" in the first run of a session (its first option).
RerunStatic ==
    /\ phase = "shown"
    /\ \E ms \in SessionGroups : members' = ms
    /\ mode' = "Static"
    /\ tab' = "Static"
    /\ UNCHANGED <<phase, label, wb, elapsed, agg, traced, xvals, yvals, zvals,
                   highlight, exc>>
    /\ UNCHANGED <<start_time, now>>
    /\ UNCHANGED fetchvars

\* The clock advances between two runs.
Tick ==
    /\ now < MaxNow
    /\ now' = now + 1
    /\ UNCHANGED <<mode, start_time>>
    /\ UNCHANGED runvars
    /\ UNCHANGED fetchvars

SessionInit ==
    /\ phase = "ready"
    /\ tab = ""
    /\ label = ""
    /\ members = <<"Brazil">>
    /\ \E obs \in Tables(SessionKeys) : wb = Answers(SessionKeys, obs)
    /\ elapsed = 0
    /\ agg = NoAgg
    /\ traced = FALSE
    /\ xvals = <<>>
    /\ yvals = <<>>
    /\ zvals = <<>>
    /\ highlight = {}
    /\ exc = ""
    /\ net = "ok"
    /\ source = [countries |-> JsRows(CountryRows), indicator |-> JsRows(<<>>)]
    /\ cache = [k \in FetchKeys |-> <<>>]
    /\ last = NoCall
    /\ mode = "Live"
    /\ start_time = None
    /\ now = 0

SessionNext == RerunLive \/ RerunStatic \/ Tick

SessionSpec == SessionInit /\ [][SessionNext]_vars

\* ================================================================ claims
Shown(t) == phase = "shown" /\ tab = t

Metric == INDICATORS[label]

\* What get_series / get_indicator returned to the run for a member.
MemberSeries(c, indicator) == get_series(wb, CountriesGet(c), indicator)
MemberValue(c, indicator) == get_indicator(wb, CountriesGet(c), indicator)

\* The members whose series holds an observation for year y.
Reporters(indicator, y) ==
    {c \in Range(members) : DictHas(MemberSeries(c, indicator), y)}

RECURSIVE SumAt(_, _, _)
SumAt(S, indicator, y) ==
    IF S = {} THEN 0
    ELSE LET c == CHOOSE c \in S : TRUE
         IN DictGet(MemberSeries(c, indicator), y, 0) + SumAt(S \ {c}, indicator, y)

RECURSIVE SumValues(_, _)
SumValues(S, indicator) ==
    IF S = {} THEN 0
    ELSE LET c == CHOOSE c \in S : TRUE
         IN MemberValue(c, indicator) + SumValues(S \ {c}, indicator)

MemberOrders(ms) ==
    {p \in [1..Len(ms) -> Range(ms)] : Range(p) = Range(ms)}

Resolvable(ms) == SelectSeq(ms, LAMBDA c : DictHas(countries, c))

\* C1: in the Trends section, for every metric but GDP per Capita, the value
\* emitted for a year is the sum of the values of exactly the members whose
\* get_series result holds that year; the others add nothing and no error
\* is raised.
C1_TrendsSum ==
    (Shown("Trends") /\ label # "GDP per Capita") =>
        /\ exc = ""
        /\ Len(yvals) = Len(xvals)
        /\ \A i \in 1..Len(xvals) :
              yvals[i] = Num(SumAt(Reporters(Metric, xvals[i]), Metric, xvals[i]))

C1_Witness ==
    /\ Shown("Trends") /\ label # "GDP per Capita" /\ traced
    /\ \E i \in 1..Len(xvals) :
          /\ Cardinality(Reporters(Metric, xvals[i])) >= 2
          /\ Reporters(Metric, xvals[i]) # Range(members)
          /\ yvals[i][1] >= 2

\* C2: the series handed to the chart for a group is sorted ascending by
\* year.
C2_SortedByYear ==
    Shown("Trends") =>
        \A i, j \in 1..Len(xvals) : i < j => xvals[i] < xvals[j]

\* C3 as stated: for every metric, GDP per Capita included, a year is
\* emitted iff at least one member has an observation of the metric for it.
C3_YearIffReported ==
    Shown("Trends") =>
        \A y \in Years : (y \in Range(xvals)) <=> (Reporters(Metric, y) # {})

\* C3 as amended: for every metric but GDP per Capita a year is emitted iff
\* at least one member has an observation of the metric for it; for GDP per
\* Capita a year is emitted only if some member has an observation of the
\* metric and some member a population observation for it, so a reported
\* year without a population observation is dropped.  No year is emitted
\* twice.
C3_YearIffReportedButRatio ==
    Shown("Trends") =>
        /\ \A i, j \in 1..Len(xvals) : xvals[i] = xvals[j] => i = j
        /\ label # "GDP per Capita" =>
              \A y \in Years : (y \in Range(xvals)) <=> (Reporters(Metric, y) # {})
        /\ label = "GDP per Capita" =>
              \A y \in Range(xvals) :
                  Reporters(Metric, y) # {} /\ Reporters(POP, y) # {}

C3_Witness ==
    /\ Shown("Trends") /\ label = "GDP per Capita" /\ traced /\ exc = ""
    /\ \E y \in Years :
          Reporters(Metric, y) # {} /\ Reporters(POP, y) = {} /\ y \notin Range(xvals)

\* C4: processing the group's members in any order yields the identical
\* emitted sequence of (year, value) pairs.
C4_OrderIndependent ==
    Shown("Trends") =>
        \A p \in MemberOrders(members) :
            tab_trends(wb, p, label) =
                [traced |-> traced, xvals |-> xvals, yvals |-> yvals, exc |-> exc]

\* C5: the GDP per Capita value emitted for a year is the sum of the metric
\* over the sum of the population, both over the members that report both
\* for that year.
C5_RatioOverBothReporters ==
    (Shown("Trends") /\ label = "GDP per Capita") =>
        \A i \in 1..Len(xvals) :
            LET both == Reporters(Metric, xvals[i]) \cap Reporters(POP, xvals[i])
                n == SumAt(both, Metric, xvals[i])
                d == SumAt(both, POP, xvals[i])
            IN d # 0 /\ yvals[i][1] * d = n * yvals[i][2]

\* C6: in the GDP per Capita trend a year of zero total weight is omitted
\* and no division by zero is performed.
C6_ZeroWeightOmitted ==
    (Shown("Trends") /\ label = "GDP per Capita") =>
        /\ exc = ""
        /\ \A i \in 1..Len(xvals) : yvals[i][2] # 0

\* C7: the mean branch of the Comparison section yields the sum of the
\* reporting members' values over the number of reporting members (None when
\* nobody reports), never over the size of the group.
C7_MeanOverReporters ==
    (Shown("Comparison") /\ label \notin {"Population", "GDP", "GDP per Capita"}) =>
        LET reporting == {c \in Range(members) : MemberValue(c, Metric) # None}
        IN /\ exc = ""
           /\ agg = IF reporting = {} THEN NoAgg
                    ELSE <<SumValues(reporting, Metric), Cardinality(reporting)>>

C7_Witness ==
    /\ Shown("Comparison") /\ label = "Gini Index"
    /\ \E c \in Range(members) : MemberValue(c, Metric) = 1
    /\ \E c \in Range(members) : DictHas(countries, c) /\ MemberValue(c, Metric) = None
    /\ agg = <<1, 1>>

\* C8: a member whose name resolves to no country code contributes an empty
\* series / no value, and in every section the group's result is the result
\* over the resolvable members (the run is not aborted by the member).
C8_UnresolvedContributesNothing ==
    phase = "shown" =>
        LET rs == Resolvable(members)
        IN /\ \A k \in DOMAIN wb :
                 k[1] = NoCode =>
                    get_series_of(wb[k]) = <<>> /\ get_indicator_of(wb[k]) = None
           /\ tab = "Live" => agg = live_mode(wb, rs, elapsed) /\ exc = ""
           /\ tab = "Comparison" =>
                 tab_compare(wb, rs, label) = [agg |-> agg, exc |-> exc]
           /\ tab = "Trends" =>
                 tab_trends(wb, rs, label) =
                    [traced |-> traced, xvals |-> xvals, yvals |-> yvals, exc |-> exc]
           /\ tab = "Military" =>
                 tab_military(wb, rs, label) = [agg |-> agg, exc |-> exc]
           /\ tab = "Trade" =>
                 tab_trade(wb, rs, label) = [agg |-> agg, exc |-> exc]
           /\ tab = "Map" => highlight = tab_map_highlight(rs) /\ exc = ""

C8_Witness ==
    /\ Shown("Comparison") /\ "Russia" \in Range(members)
    /\ Len(Resolvable(members)) = 2
    /\ agg # NoAgg /\ agg[1] > 0

\* What a call returns when its request reaches the API.
SourceResult(k) == ReturnOf(k[1], Ok(SourceBody(k)))

\* list / dict / number the functions return for "nothing".
Absent(fn) == IF fn = "get_indicator" THEN None ELSE <<>>

\* C9: when the HTTP request fails (connection error, timeout, error
\* status, undecodable body) safe_json returns None and the fetch function
\* returns its empty result ([] / None / {}) instead of raising.
C9_FailureAbsorbed ==
    (last.key # <<>> /\ ~last.hit /\ last.resp.status # "ok") =>
        /\ safe_json(last.resp) = JsonNone
        /\ last.exc = ""
        /\ last.ret = <<Absent(last.key[1])>>

C9_Witness ==
    /\ last.key = <<"get_series", "BRA", POP>>
    /\ ~last.hit
    /\ last.resp.status = "JSONDecodeError"
    /\ SourceResult(last.key) # <<>>
    /\ last.ret = << <<>> >>

\* C10: a cached result (the empty one stored after a failure included) is
\* not served forever: once the API stays reachable, some later call with
\* the same arguments returns the API's data.  (Stated for the bodies the
\* function returns a result for.)
C10_CachedResultExpires ==
    \A k \in FetchKeys :
        (ExcOf(k[1], Ok(SourceBody(k))) = "" /\ <>[](net = "ok"))
            => <>(last.key = k /\ last.ret = <<SourceResult(k)>>)

\* C11: in the Comparison section no run ends in an exception: for every
\* group, metric and combination of present / absent member values and
\* populations the bar is a number or None; GDP per Capita with a reported
\* value but no usable population gives None, not a division by zero.
C11_CompareAbsorbsErrors ==
    Shown("Comparison") =>
        /\ exc = ""
        /\ (label = "GDP per Capita"
              /\ \A c \in Range(members) : ~Truthy(MemberValue(c, POP)))
           => agg = NoAgg

\* The resolvable members that report both a value of the metric and a
\* usable (non-zero) weight.
Paired(weight) ==
    {c \in Range(Resolvable(members)) :
        MemberValue(c, Metric) # None /\ Truthy(MemberValue(c, weight))}

RECURSIVE SumProducts(_, _)
SumProducts(S, weight) ==
    IF S = {} THEN 0
    ELSE LET c == CHOOSE c \in S : TRUE
         IN MemberValue(c, Metric) * MemberValue(c, weight)
            + SumProducts(S \ {c}, weight)

\* The bar is the sum of value * own weight over the sum of those weights.
OwnWeighted(weight) ==
    agg # NoAgg =>
        /\ Paired(weight) # {}
        /\ agg[1] * SumValues(Paired(weight), weight)
              = SumProducts(Paired(weight), weight) * agg[2]

C12_ComparisonPairs ==
    (Shown("Comparison") /\ label = "GDP per Capita") => OwnWeighted(POP)

C12_MilitaryPairs ==
    (Shown("Military") /\ label = "Military Spending (% GDP)") => OwnWeighted(GDP)

\* C12: in the population-weighted GDP per Capita of the Comparison section
\* and in the GDP-weighted Military Spending (% GDP) of the Military section
\* every member's value is multiplied by that member's own weight and the
\* divisor is the sum of exactly the weights used in the numerator, also
\* when a member reports a value without a weight or a weight without a
\* value.
C12_OwnWeights == C12_ComparisonPairs /\ C12_MilitaryPairs

\* The metrics of the selector that are totals of their members.
AdditiveTotals ==
    {"Population", "GDP", "Imports (USD)", "Exports (USD)",
     "Military Spending (USD)", "Armed Forces Personnel"}

\* Two bars show the same number (or both None).
SameNumber(a, b) ==
    IF a = NoAgg \/ b = NoAgg THEN a = b ELSE a[1] * b[2] = b[1] * a[2]

\* The run's answers, with the further requests of another section answered
\* without rows.
WithKeys(w, keys) ==
    [k \in DOMAIN w \cup keys |-> IF k \in DOMAIN w THEN w[k] ELSE Serve(<<>>, k)]

C13_SumOverReporters ==
    (Shown("Comparison") /\ label \in AdditiveTotals) =>
        LET reporting == {c \in Range(members) : MemberValue(c, Metric) # None}
        IN /\ exc = ""
           /\ SameNumber(agg, IF reporting = {} THEN NoAgg
                               ELSE Num(SumValues(reporting, Metric)))

C13_SameAsMilitary ==
    (Shown("Comparison") /\ label \in AdditiveTotals \cap MilitaryLabels) =>
        SameNumber(agg, tab_military(WithKeys(wb, MilitaryKeys(members, label)),
                                     members, label).agg)

C13_SameAsTrade ==
    (Shown("Comparison") /\ label \in {"Imports (USD)", "Exports (USD)"}) =>
        SameNumber(agg, tab_trade(WithKeys(wb, TradeKeys(members)), members,
                                  IF label = "Imports (USD)" THEN "Imports"
                                  ELSE "Exports").agg)

\* C13: in the Comparison section the mean branch is taken for the Gini
\* Index only: for every additive total of the selector (Population, GDP,
\* Imports, Exports, Military Spending (USD), Armed Forces Personnel) the
\* bar is the sum over the reporting members, the number the Military and
\* Trade sections show for the same metric and group.
C13_MeanOnlyForGini ==
    C13_SumOverReporters /\ C13_SameAsMilitary /\ C13_SameAsTrade

\* C14: over the reruns of a session start_time is written at most once:
\* the first Live run sets it, a Static run never does, no later run
\* changes it; and with the population data fixed, the live estimate shown
\* is non-negative and, for every group, no smaller than what the previous
\* Live run gave for it.
C14_StartTimeWrittenOnce ==
    [][/\ start_time # None => start_time' = start_time
       /\ mode' = "Static" => start_time' = start_time
       /\ (mode' = "Live" /\ phase' = "shown") =>
             /\ start_time' # None
             /\ agg' = live_mode(wb', members', elapsed')
             /\ agg'[1] >= 0 /\ agg'[2] > 0
             /\ \A g \in SessionGroups :
                   /\ live_mode(wb', g, elapsed')[2] = live_mode(wb, g, elapsed)[2]
                   /\ live_mode(wb', g, elapsed')[1] >= live_mode(wb, g, elapsed)[1]
      ]_vars

C14_Witness ==
    /\ mode = "Live" /\ phase = "shown"
    /\ members = REGIONS["BRICS"]
    /\ start_time = 0 /\ now = MaxNow /\ elapsed = MaxNow
    /\ agg[1] > 0
====
